---- MODULE Spec2Model ----
(***************************************************************************)
(* Model of src/app.js: the RequestManager (deduplication and timeouts of  *)
(* asynchronous operations) and the MohanAIChatApp send pipeline           *)
(* (sendMessage, the three backend calls, the progressive reveal of        *)
(* _streamMessage, cancel, clearChat and persistence).                     *)
(*                                                                         *)
(* JavaScript runs one macrotask at a time and drains the microtask queue  *)
(* before the next one, so each action below is one macrotask (a click, a  *)
(* timer callback, the settlement of a network operation, an animation     *)
(* frame) together with every promise continuation it triggers.            *)
(*                                                                         *)
(* Strings are sequences of tokens (characters, or a literal as a single    *)
(* token); String.includes(w) is the occurrence of the tokens of w in a    *)
(* row.                                                                    *)
(***************************************************************************)
EXTENDS Integers, Sequences, FiniteSets, TLC

\* ------------------------------------------------------------------ bounds
MaxCalls == 3      \* makeRequest calls made by the RequestManager harness
MaxSends == 2      \* accepted sendMessage calls of the chat application

MaxCancels == 1    \* clicks on the cancel button
MaxPrior == 15     \* messages a restored session holds
MaxLen == 4        \* characters of a text revealed by _streamMessage

MaxOps == IF MaxCalls > MaxSends THEN MaxCalls ELSE MaxSends
Ops == 1..MaxOps

\* ----------------------------------------------------- promises and errors
NoPromise == [state |-> "none"]

\* A request key is a sequence of tokens; no key.
NoKey == <<>>
Pending == [state |-> "pending"]
Fulfilled(v) == [state |-> "fulfilled", value |-> v]
Rejected(e) == [state |-> "rejected", reason |-> e]

\* String.prototype.includes: w occurs in message as a contiguous run of tokens.
includes(message, w) ==
    \E i \in 0..(Len(message) - Len(w)) : SubSeq(message, i + 1, i + Len(w)) = w

AbortError == [name |-> "AbortError", message |-> <<"The user aborted a request.">>]
FailedToFetch == [name |-> "TypeError", message |-> <<"Failed to fetch">>]
HttpError(status, detail) == [name |-> "Error", message |-> <<"HTTP ", status, ": ", detail>>]
NewError(text) == [name |-> "Error", message |-> <<text>>]

\* ------------------------------------------------------------------- state
VARIABLES
    \* RequestManager
    activeRequests,   \* Map key -> promise, the promise named by the op that made it
    opKey,            \* op -> the key of the makeRequest call that invoked it, while it runs
    timeoutId,        \* op -> "none" | "armed" | "fired" | "cleared"
    aborted,          \* op -> controller.signal.aborted
    invoked,          \* op -> how many times its requestFn was invoked
    requestPromise,   \* op -> state of the promise executeRequest returned (its value is
                      \* with the callers awaiting it)
    \* harness: callers of makeRequest
    nCalls,           \* makeRequest calls made so far
    callKey,          \* call -> key passed
    entryAtCall,      \* call -> the promise found under the key at the call (0: none)
    callPromise,      \* call -> the promise the call awaits
    callOutcome,      \* call -> state of the promise makeRequest returned
    observes,         \* op -> whether its requestFn observes the abort signal
    \* MohanAIChatApp
    currentModel,     \* this.currentModel (the model id, "none" for null)
    messages,         \* this.messages
    messageIdCounter, \* this.messageIdCounter
    isLoading,        \* this.isLoading
    loadingTimer,     \* this.loadingTimer: "null" | "armed"
    inputValue,       \* this.messageInput.value
    attachedFile,     \* this.attachedFile
    errorModal,       \* the text the error modal shows, <<>> while it is hidden
    conversationId,   \* this.conversationId
    localStorage,     \* the persistence store: selectedModel, chatMessages
    sends,            \* send -> the locals of that sendMessage call and of its reveal
    requests,         \* op -> the HTTP request in flight for it
    \* environment
    now,              \* Date.now(), at the granularity of accepted sends
    storageThrows,    \* which localStorage.setItem calls throw: "no" | "all" | "chatMessages" (a full store)
    nSends,           \* accepted sendMessage calls so far
    nCancels,         \* clicks on the cancel button so far
    rejectedCall      \* the state the latest sendMessage call that returned at its guards found

rmVars == <<activeRequests, opKey, timeoutId, aborted, invoked, requestPromise>>
harnessVars == <<nCalls, callKey, entryAtCall, callPromise, callOutcome, observes>>
appVars == <<currentModel, messages, messageIdCounter, isLoading, loadingTimer, inputValue,
             attachedFile, errorModal, conversationId, localStorage,
             sends, requests>>
envVars == <<now, storageThrows, nSends, nCancels, rejectedCall>>
vars == <<rmVars, harnessVars, appVars, envVars>>

\* ---------------------------------------------------------- RequestManager
\* The manager's state as one value, so that the steps of one macrotask compose.
RM == [activeRequests |-> activeRequests, opKey |-> opKey, timeoutId |-> timeoutId,
       aborted |-> aborted, invoked |-> invoked, requestPromise |-> requestPromise]

SetRM(r) ==
    /\ activeRequests' = r.activeRequests
    /\ opKey' = r.opKey
    /\ timeoutId' = r.timeoutId
    /\ aborted' = r.aborted
    /\ invoked' = r.invoked
    /\ requestPromise' = r.requestPromise

has(map, key) == key \in DOMAIN map

MapDelete(map, key) == [k \in DOMAIN map \ {key} |-> map[k]]
MapSet(map, key, value) == [k \in DOMAIN map \cup {key} |-> IF k = key THEN value ELSE map[k]]

\* clearTimeout that leaves the timer running.
clearTimeoutKeepsTimer(timers, o) == timers

clearTimeout(timers, o) == IF timers[o] = "armed" THEN [timers EXCEPT ![o] = "cleared"] ELSE timers

\* makeRequest, lines 56-69, called with `key` and the requestFn of op `o`:
\* the promise the caller ends up awaiting.
makeRequestPromise(r, key, o) == IF has(r.activeRequests, key) THEN r.activeRequests[key] ELSE o

\* Mutant of makeRequest: the has(key) check of line 57 is missing.
makeRequestNoDedup(r, key, o) ==
    [r EXCEPT !.aborted[o] = FALSE,
              !.timeoutId[o] = "armed",
              !.invoked[o] = @ + 1,
              !.requestPromise[o] = Pending,
              !.opKey[o] = key,
              !.activeRequests = MapSet(@, key, o)]

\* makeRequest, lines 56-69: the effect of the call on the manager. The
\* requestFn of op o is invoked synchronously by executeRequest (line 84).
makeRequest(r, key, o) ==
    IF has(r.activeRequests, key)
    THEN r
    ELSE [r EXCEPT !.aborted[o] = FALSE,
                   !.timeoutId[o] = "armed",
                   !.invoked[o] = @ + 1,
                   !.requestPromise[o] = Pending,
                   !.opKey[o] = key,
                   !.activeRequests = MapSet(@, key, o)]

\* Mutant of executeRequest: an AbortError is rethrown as it is (lines 89-91
\* missing).
executeRequestKeepsAbortError(fnOutcome) ==
    IF fnOutcome.state = "fulfilled" THEN fnOutcome
    ELSE IF includes(fnOutcome.reason.message, <<"Failed to fetch">>) THEN Rejected(NewError("network"))
    ELSE fnOutcome

\* executeRequest, lines 82-97: the outcome of the promise it returns, from
\* the outcome of requestFn.
executeRequest(fnOutcome) ==
    IF fnOutcome.state = "fulfilled" THEN fnOutcome
    ELSE IF fnOutcome.reason.name = "AbortError" THEN Rejected(NewError("timeout"))
    ELSE IF includes(fnOutcome.reason.message, <<"Failed to fetch">>) THEN Rejected(NewError("network"))
    ELSE fnOutcome

\* Mutant of makeRequestFinally: the entry is not deleted.
makeRequestFinallyNoDelete(r, o) ==
    [r EXCEPT !.timeoutId = clearTimeout(@, o), !.opKey[o] = NoKey]

\* The finally block of makeRequest, lines 76-79, run by the call that made op o.
makeRequestFinally(r, o) ==
    [r EXCEPT !.timeoutId = clearTimeout(@, o),
              !.activeRequests = MapDelete(@, r.opKey[o]),
              !.opKey[o] = NoKey]

\* The requestFn of op o settles with fnOutcome: executeRequest resumes
\* (lines 84-96, clearTimeout on both branches), then the makeRequest call
\* that made o (lines 71-79).
settleRequest(r, o, fnOutcome) ==
    makeRequestFinally(
        [r EXCEPT !.timeoutId = clearTimeout(@, o),
                  !.requestPromise[o] = [state |-> executeRequest(fnOutcome).state]], o)

\* The timeout callback of makeRequest, lines 64-66.
timeoutCallback(r, o) ==
    [r EXCEPT !.timeoutId[o] = "fired", !.aborted[o] = TRUE]

\* cancelAllRequests, lines 99-101.
cancelAllRequests(r) == [r EXCEPT !.activeRequests = <<>>]

InitRM ==
    /\ activeRequests = <<>>
    /\ opKey = [o \in Ops |-> NoKey]
    /\ timeoutId = [o \in Ops |-> "none"]
    /\ aborted = [o \in Ops |-> FALSE]
    /\ invoked = [o \in Ops |-> 0]
    /\ requestPromise = [o \in Ops |-> NoPromise]

\* ------------------------------------------------------------ JS values
\* A string is a sequence of tokens (characters, or a literal as one token).
\* A value read from a parsed JSON body is a string or undefined.
Str(v) == [defined |-> TRUE, v |-> v]
Undefined == [defined |-> FALSE, v |-> <<>>]

\* Reading the property `name` of the object obj: undefined when obj has no
\* such property.
field(obj, name) == IF name \in DOMAIN obj THEN Str(obj[name]) ELSE Undefined

\* Template-literal interpolation ${x}: undefined prints as "undefined".
toText(x) == IF x.defined THEN x.v ELSE <<"undefined">>

RECURSIVE trimStart(_)
trimStart(s) == IF s # <<>> /\ Head(s) = " " THEN trimStart(Tail(s)) ELSE s

RECURSIVE trimEnd(_)
trimEnd(s) == IF s # <<>> /\ s[Len(s)] = " " THEN trimEnd(SubSeq(s, 1, Len(s) - 1)) ELSE s

\* String.prototype.trim, line 564.
trim(s) == trimEnd(trimStart(s))

\* String.prototype.startsWith, line 588.
startsWith(s, w) == s # <<>> /\ Head(s) = w

\* Array.prototype.slice(-n), line 696.
sliceLast(seq, n) == IF Len(seq) <= n THEN seq ELSE SubSeq(seq, Len(seq) - n + 1, Len(seq))

\* ------------------------------------------------------------ application
Models == {"m1"}
NoModel == "none"

NoFile == [present |-> FALSE, name |-> "", type |-> <<>>, size |-> 0]
AudioFile == [present |-> TRUE, name |-> "a.wav", type |-> <<"audio", "/wav">>, size |-> 2048]
TextFile == [present |-> TRUE, name |-> "d.txt", type |-> <<"text", "/plain">>, size |-> 0]
Files == {AudioFile, TextFile}

InputTexts == {<<" ">>, <<"h", "i">>}

HistoryWindow == 10

\* ERROR_MESSAGES, lines 43-48, and the literals of sendMessage and showLoading.
ErrTimeout == <<"Request timed out after 15 seconds. Please try again.">>
ErrNetwork == <<"Unable to connect to backend. Please check your backend is running.">>
ErrServer == <<"Backend server error. The response may be incomplete.">>
ErrUnexpected == <<"Sorry, an unexpected error occurred. Please try again.">>
ErrWatchdog == <<"Request timed out after 15 seconds. Please try again or use demo mode.">>
NoResponseReceived == <<"No response received">>
CancelledText == <<"Operation was cancelled by user.">>

\* Number.prototype.toString for a natural number, one token per digit.
RECURSIVE numberToString(_)
numberToString(n) ==
    LET digit == <<"0", "1", "2", "3", "4", "5", "6", "7", "8", "9">>[(n % 10) + 1]
    IN IF n < 10 THEN <<digit>> ELSE numberToString(n \div 10) \o <<digit>>

\* formatFileSize, lines 910-916: bytes / k^i rounded to one decimal, printed
\* without a trailing ".0" (parseFloat), then the unit.
formatFileSize(bytes) ==
    IF bytes = 0 THEN <<"0 Bytes">>
    ELSE LET i == IF bytes < 1024 THEN 0 ELSE IF bytes < 1024 * 1024 THEN 1 ELSE 2
             unit == <<"Bytes", "KB", "MB">>[i + 1]
             div == IF i = 0 THEN 1 ELSE IF i = 1 THEN 1024 ELSE 1024 * 1024
             tenths == (bytes * 20 + div) \div (2 * div)
             decimals == IF tenths % 10 = 0 THEN <<>> ELSE <<".">> \o numberToString(tenths % 10)
         IN numberToString(tenths \div 10) \o decimals \o <<" ", unit>>

\* The placeholder text of an attached file, line 573.
placeholder(file) == <<"file-icon ", file.name, " (">> \o formatFileSize(file.size) \o <<")">>

NoMessage == [id |-> 0, type |-> "none", content |-> <<>>, timestamp |-> 0, cancelled |-> FALSE]

\* The locals of a sendMessage call that has not started, and of one that returned.
IdleSend == [pc |-> "none", text |-> <<>>, file |-> NoFile, promise |-> 0,
             fullContent |-> <<>>, i |-> 0, message |-> NoMessage, msgIndex |-> 0]
DoneSend == [IdleSend EXCEPT !.pc = "done"]

NoRequest == [endpoint |-> "none"]

Sends == 1..MaxSends

\* The application's state as one value, so that the steps of one macrotask compose.
App == [currentModel |-> currentModel, messages |-> messages,
        messageIdCounter |-> messageIdCounter, isLoading |-> isLoading,
        loadingTimer |-> loadingTimer, inputValue |-> inputValue,
        attachedFile |-> attachedFile, errorModal |-> errorModal,
        conversationId |-> conversationId,
        localStorage |-> localStorage, sends |-> sends, requests |-> requests,
        now |-> now, storageThrows |-> storageThrows]

SetApp(a) ==
    /\ currentModel' = a.currentModel
    /\ messages' = a.messages
    /\ messageIdCounter' = a.messageIdCounter
    /\ isLoading' = a.isLoading
    /\ loadingTimer' = a.loadingTimer
    /\ inputValue' = a.inputValue
    /\ attachedFile' = a.attachedFile
    /\ errorModal' = a.errorModal
    /\ conversationId' = a.conversationId
    /\ localStorage' = a.localStorage
    /\ sends' = a.sends
    /\ requests' = a.requests

\* addMessage, lines 773-792.
addMessage(a, type, content, cancelled) ==
    LET messageId == a.messageIdCounter + 1
        message == [id |-> messageId, type |-> type, content |-> content,
                    timestamp |-> a.now, cancelled |-> cancelled]
    IN [a EXCEPT !.messageIdCounter = messageId, !.messages = Append(@, message)]

\* showLoading, lines 1010-1040: with isLoading already set it only updates the
\* texts of the overlay and returns (lines 1011-1015).
showLoading(a) ==
    IF a.isLoading THEN a
    ELSE [a EXCEPT !.isLoading = TRUE, !.loadingTimer = "armed"]

\* hideLoading, lines 1042-1056.
hideLoading(a) == [a EXCEPT !.isLoading = FALSE, !.loadingTimer = "null"]

\* showError, lines 993-999: the modal is shown with the text.
showError(a, message) == [a EXCEPT !.errorModal = message]

\* JSON.stringify(this.messages), line 426: every own property of each message.
JSONstringify(msgs) ==
    [k \in 1..Len(msgs) |-> [f \in DOMAIN msgs[k] |-> msgs[k][f]]]

\* saveState with the exception of setItem reaching the caller, whose own
\* handler reports it.
saveStateUncaught(a) ==
    IF a.storageThrows # "no" THEN showError(a, ErrUnexpected)
    ELSE [a EXCEPT !.localStorage.selectedModel = IF a.currentModel # NoModel THEN a.currentModel ELSE @,
                   !.localStorage.chatMessages = [present |-> TRUE, value |-> JSONstringify(a.messages)]]

\* saveState, lines 421-430: the writes made before a setItem throws stay, the
\* exception is caught and logged.
saveState(a) ==
    LET a1 == IF a.currentModel # NoModel /\ a.storageThrows # "all"
              THEN [a EXCEPT !.localStorage.selectedModel = a.currentModel]
              ELSE a
    IN IF a.storageThrows = "no"
       THEN [a1 EXCEPT !.localStorage.chatMessages = [present |-> TRUE, value |-> JSONstringify(a.messages)]]
       ELSE a1

\* clearChat that also restarts the id counter.
clearChatResetsCounter(a) ==
    saveState([a EXCEPT !.messages = <<>>,
                        !.messageIdCounter = 0,
                        !.attachedFile = NoFile,
                        !.sends = [s \in Sends |-> [a.sends[s] EXCEPT !.msgIndex = 0]]])

\* clearChat, lines 933-954. this.messages becomes a new array, so a message
\* object still being revealed is no longer an element of it.
clearChat(a) ==
    saveState([a EXCEPT !.messages = <<>>,
                        !.attachedFile = NoFile,
                        !.sends = [s \in Sends |-> [a.sends[s] EXCEPT !.msgIndex = 0]]])

\* loadSavedState, lines 396-419, with the models the backend listed.
loadSavedState(a, models) ==
    LET a1 == IF a.localStorage.selectedModel \in models
              THEN [a EXCEPT !.currentModel = a.localStorage.selectedModel] ELSE a
    IN IF a.localStorage.chatMessages.present
       THEN [a1 EXCEPT !.messages = a.localStorage.chatMessages.value]
       ELSE a1

\* ------------------------------------------------------- backend and fetch
\* An HTTP exchange as fetch and res.json() see it: no response at all, or a
\* status and a body: JSON with the fields the code reads, or not JSON at all.
NetworkFailure == [network |-> FALSE, status |-> 0, json |-> FALSE, hasResponse |-> FALSE,
                   content |-> Undefined, transcription |-> Undefined, detail |-> Undefined]
HttpResponse(status, hasResponse, content, transcription, detail) ==
    [network |-> TRUE, status |-> status, json |-> TRUE, hasResponse |-> hasResponse,
     content |-> content, transcription |-> transcription, detail |-> detail]
NotJson(status) ==
    [network |-> TRUE, status |-> status, json |-> FALSE, hasResponse |-> FALSE,
     content |-> Undefined, transcription |-> Undefined, detail |-> Undefined]
OkChat(content) == HttpResponse(200, TRUE, content, Undefined, Undefined)
OkTranscription(text) == HttpResponse(200, FALSE, Undefined, text, Undefined)
Failure(status, detail) == HttpResponse(status, FALSE, Undefined, Undefined, Str(detail))

\* What the backend can answer to a request of each endpoint.
BackendResponses(endpoint) ==
    IF endpoint = "chat"
    THEN {OkChat(Str(<<"o", "k">>)), OkChat(Str(<<>>)),
          HttpResponse(200, FALSE, Undefined, Undefined, Undefined),
          Failure(500, <<"boom">>), NetworkFailure}
    ELSE IF endpoint = "upload_and_chat"
    THEN {OkChat(Str(<<"o", "k">>)), OkChat(Undefined), Failure(500, <<"boom">>)}
    ELSE {OkTranscription(Str(<<"h", "i">>)), Failure(500, <<"boom">>)}

resOk(res) == res.status >= 200 /\ res.status <= 299

TypeErrorUndefined == [name |-> "TypeError", message |-> <<"Cannot read properties of undefined">>]

\* What res.json() rejects with for a body that is not JSON (the quoted start
\* of the body that the engine appends to the message is left out).
SyntaxErrorJson == [name |-> "SyntaxError", message |-> <<"Unexpected token">>]

\* new Error(`HTTP ${res.status}: ${errorData.detail}`), lines 652, 674, 704.
HttpStatusError(res) ==
    [name |-> "Error",
     message |-> <<"HTTP ">> \o numberToString(res.status) \o <<": ">> \o toText(res.detail)]

\* Mutant of chatRequestFn: the content is returned as it is (the
\* `|| 'No response received'` of line 707 is missing).
chatRequestFnNoFallback(res) ==
    IF ~res.network THEN Rejected(FailedToFetch)
    ELSE IF ~res.json THEN Rejected(SyntaxErrorJson)
    ELSE IF ~resOk(res) THEN Rejected(HttpStatusError(res))
    ELSE IF ~res.hasResponse THEN Rejected(TypeErrorUndefined)
    ELSE Fulfilled(res.content)

\* The requestFn of callChatAPI, lines 683-708, on the exchange `res`.
chatRequestFn(res) ==
    IF ~res.network THEN Rejected(FailedToFetch)
    ELSE IF ~res.json THEN Rejected(SyntaxErrorJson)
    ELSE IF ~resOk(res) THEN Rejected(HttpStatusError(res))
    ELSE IF ~res.hasResponse THEN Rejected(TypeErrorUndefined)
    ELSE IF res.content.defined /\ res.content.v # <<>> THEN Fulfilled(Str(res.content.v))
    ELSE Fulfilled(Str(NoResponseReceived))

\* The requestFn of callUploadAndChatAPI and of callTranscribeAPI, lines
\* 644-655 and 666-677: the parsed body.
jsonRequestFn(res) ==
    IF ~res.network THEN Rejected(FailedToFetch)
    ELSE IF ~res.json THEN Rejected(SyntaxErrorJson)
    ELSE IF ~resOk(res) THEN Rejected(HttpStatusError(res))
    ELSE Fulfilled(res)

requestFn(endpoint, res) == IF endpoint = "chat" THEN chatRequestFn(res) ELSE jsonRequestFn(res)

\* callUploadAndChatAPI after its await, line 678: response.response.content.
uploadResult(outcome) ==
    IF outcome.state = "rejected" THEN outcome
    ELSE IF ~outcome.value.hasResponse THEN Rejected(TypeErrorUndefined)
    ELSE Fulfilled(outcome.value.content)

\* callTranscribeAPI after its await, line 656: response.transcription.
transcribeResult(outcome) ==
    IF outcome.state = "rejected" THEN outcome ELSE Fulfilled(outcome.value.transcription)

\* The filter of the chat history, line 695. No message ever has the type
\* 'file-attachment' (addMessage is only called with 'user' and 'ai').
RECURSIVE filterNotFileAttachment(_)
filterNotFileAttachment(msgs) ==
    IF msgs = <<>> THEN <<>>
    ELSE (IF Head(msgs).type # "file-attachment" THEN <<Head(msgs)>> ELSE <<>>)
         \o filterNotFileAttachment(Tail(msgs))

\* Mutant of history: the slice(-10) of line 696 is missing.
historyWholeList(msgs) ==
    LET kept == filterNotFileAttachment(msgs)
    IN [k \in 1..Len(kept) |->
          [role |-> kept[k].type, content |-> kept[k].content, timestamp |-> kept[k].timestamp]]

\* The history of the chat request, lines 694-697.
history(msgs) ==
    LET kept == sliceLast(filterNotFileAttachment(msgs), HistoryWindow)
    IN [k \in 1..Len(kept) |->
          [role |-> kept[k].type, content |-> kept[k].content, timestamp |-> kept[k].timestamp]]

\* The request each call*API hands to fetch, lines 640-648, 660-670, 682-700.
chatRequest(a, message) ==
    [endpoint |-> "chat", model_id |-> a.currentModel, message |-> message,
     conversation_id |-> a.conversationId, history |-> history(a.messages)]
uploadRequest(a, file, message) ==
    [endpoint |-> "upload_and_chat", file |-> file, message |-> message, model_id |-> a.currentModel]
transcribeRequest(file) == [endpoint |-> "transcribe", audio_file |-> file]

\* ------------------------------------------------------------- sendMessage
\* Mutant of endpointFor: an audio file is sent like any other file.
endpointForIgnoresAudio(file) == IF file.present THEN "upload_and_chat" ELSE "chat"

\* The branch of lines 588-609: which backend operation a send uses.
endpointFor(file) ==
    IF file.present /\ startsWith(file.type, "audio") THEN "transcribe"
    ELSE IF file.present THEN "upload_and_chat"
    ELSE "chat"

\* sendMessage without the check of line 567 for something to send.
sendAcceptedWithoutInput(a) ==
    /\ a.currentModel # NoModel
    /\ ~a.isLoading

\* sendMessage without the check of the selected model.
sendAcceptedWithoutModel(a) ==
    /\ ~a.isLoading
    /\ (trim(a.inputValue) # <<>> \/ a.attachedFile.present)

\* The guards of sendMessage, lines 562-567 (this.messageInput always exists).
sendAccepted(a) ==
    /\ a.currentModel # NoModel
    /\ ~a.isLoading
    /\ (trim(a.inputValue) # <<>> \/ a.attachedFile.present)

\* The key sendMessage passes to makeRequest, lines 644, 666, 683.
sendKey(a) == <<endpointFor(a.attachedFile), a.now>>

\* sendMessage, lines 561-609, up to its await: send s is the accepted call, r
\* the manager before the call. The request is built and handed to fetch
\* synchronously, unless makeRequest joins a pending promise of the same key.
sendMessageBuildsRequestFirst(a, r, s) ==
    LET text == trim(a.inputValue)
        file == a.attachedFile
        a1 == [a EXCEPT !.isLoading = TRUE]
        a2 == IF file.present THEN addMessage(a1, "user", placeholder(file), FALSE) ELSE a1
        a3 == IF text # <<>> THEN addMessage(a2, "user", text, FALSE) ELSE a2
        a4 == showLoading([a3 EXCEPT !.inputValue = <<>>, !.attachedFile = NoFile])
        endpoint == endpointFor(file)
        request == IF endpoint = "transcribe" THEN transcribeRequest(file)
                   ELSE IF endpoint = "upload_and_chat" THEN uploadRequest(a4, file, text)
                   ELSE chatRequest(a1, text)
    IN [a4 EXCEPT !.sends[s] = [IdleSend EXCEPT !.pc = "awaiting", !.text = text, !.file = file,
                                                !.promise = makeRequestPromise(r, sendKey(a), s)],
                  !.requests[s] = IF has(r.activeRequests, sendKey(a)) THEN NoRequest ELSE request]

sendMessage(a, r, s) ==
    LET text == trim(a.inputValue)
        file == a.attachedFile
        a1 == [a EXCEPT !.isLoading = TRUE]
        a2 == IF file.present THEN addMessage(a1, "user", placeholder(file), FALSE) ELSE a1
        a3 == IF text # <<>> THEN addMessage(a2, "user", text, FALSE) ELSE a2
        a4 == showLoading([a3 EXCEPT !.inputValue = <<>>, !.attachedFile = NoFile])
        endpoint == endpointFor(file)
        request == IF endpoint = "transcribe" THEN transcribeRequest(file)
                   ELSE IF endpoint = "upload_and_chat" THEN uploadRequest(a4, file, text)
                   ELSE chatRequest(a4, text)
    IN [a4 EXCEPT !.sends[s] = [IdleSend EXCEPT !.pc = "awaiting", !.text = text, !.file = file,
                                                !.promise = makeRequestPromise(r, sendKey(a), s)],
                  !.requests[s] = IF has(r.activeRequests, sendKey(a)) THEN NoRequest ELSE request]

\* The finally block of sendMessage, lines 633-636; the call returns.
sendFinally(a, s) == [a EXCEPT !.isLoading = FALSE, !.sends[s] = DoneSend]

\* The catch block of sendMessage without the showError of line 632.
sendCatchSilent(a, s, error) == sendFinally(hideLoading(a), s)

\* The catch block of sendMessage, lines 613-633. With no attached file,
\* file.name at line 629 throws and showError is not reached.
sendCatch(a, s, error) ==
    LET a1 == hideLoading(a)
        m == error.message
        file == a.sends[s].file
        errorMessage1 ==
            IF includes(m, <<"4", "0", "0">>) THEN <<"Failed to process message. 400 Error: ", "undefined">>
            ELSE IF includes(m, <<"4", "0", "5">>) THEN <<"Failed to process message. 405 Error: Method Not Allowed. This is likely a configuration issue.">>
            ELSE IF includes(m, <<"timeout">>) THEN ErrTimeout
            ELSE IF includes(m, <<"network">>) THEN ErrNetwork
            ELSE IF includes(m, <<"server">>) THEN ErrServer
            ELSE ErrUnexpected
    IN IF includes(m, <<"Audio transcription failed">>)
       THEN IF file.present
            THEN sendFinally(showError(a1, <<"Failed to transcribe ", file.name, ". Please try again.">>), s)
            ELSE sendFinally(a1, s)
       ELSE sendFinally(showError(a1, errorMessage1), s)

\* Mutant of typeWriter: the promise resolves one character early (the
\* comparison of line 757 is off by one).
typeWriterStopsEarly(a, s) ==
    LET send == a.sends[s] IN
    IF send.i + 1 < Len(send.fullContent)
    THEN LET message == [send.message EXCEPT !.content = Append(@, send.fullContent[send.i + 1])]
         IN [a EXCEPT !.sends[s].message = message,
                      !.sends[s].i = @ + 1,
                      !.messages = IF send.msgIndex > 0 THEN [@ EXCEPT ![send.msgIndex] = message] ELSE @]
    ELSE sendFinally(saveState(a), s)

\* typeWriter appending the character before the next one (charAt(i - 1)).
typeWriterRepeatsCharacter(a, s) ==
    LET send == a.sends[s] IN
    IF send.i < Len(send.fullContent)
    THEN LET message == [send.message EXCEPT !.content = Append(@, send.fullContent[IF send.i = 0 THEN 1 ELSE send.i])]
         IN [a EXCEPT !.sends[s].message = message,
                      !.sends[s].i = @ + 1,
                      !.messages = IF send.msgIndex > 0 THEN [@ EXCEPT ![send.msgIndex] = message] ELSE @]
    ELSE sendFinally(saveState(a), s)

\* typeWriter, lines 756-767, one call: reveal the next character, or resolve
\* the promise of _streamMessage, after which sendMessage runs lines 612-636.
typeWriter(a, s) ==
    LET send == a.sends[s] IN
    IF send.i < Len(send.fullContent)
    THEN LET message == [send.message EXCEPT !.content = Append(@, send.fullContent[send.i + 1])]
         IN [a EXCEPT !.sends[s].message = message,
                      !.sends[s].i = @ + 1,
                      !.messages = IF send.msgIndex > 0 THEN [@ EXCEPT ![send.msgIndex] = message] ELSE @]
    ELSE sendFinally(saveState(a), s)

\* _streamMessage, lines 712-771: the message is pushed with empty content,
\* then typeWriter runs once synchronously. fullContent.length throws for a
\* content that is undefined: the promise rejects and sendMessage catches it.
streamMessage(a, s, type, content) ==
    LET messageId == a.messageIdCounter + 1
        message == [id |-> messageId, type |-> type, content |-> <<>>,
                    timestamp |-> a.now, cancelled |-> FALSE]
        a1 == [a EXCEPT !.messageIdCounter = messageId,
                        !.messages = Append(@, message),
                        !.sends[s] = [@ EXCEPT !.pc = "streaming", !.fullContent = content.v, !.i = 0,
                                               !.message = message, !.msgIndex = Len(a.messages) + 1]]
    IN IF content.defined THEN typeWriter(a1, s) ELSE sendCatch(a1, s, TypeErrorUndefined)

\* Mutant of sendResume: the transcription is revealed by _streamMessage like
\* a chat answer.
sendResumeStreamsTranscription(a, s, outcome) ==
    LET endpoint == endpointFor(a.sends[s].file)
        c == IF endpoint = "transcribe" THEN transcribeResult(outcome)
             ELSE IF endpoint = "upload_and_chat" THEN uploadResult(outcome) ELSE outcome
    IN IF c.state = "rejected" THEN sendCatch(a, s, c.reason)
       ELSE streamMessage(a, s, "ai", c.value)

\* sendMessage after its await, lines 591-612: the promise send s awaits has
\* settled with `outcome`.
sendResume(a, s, outcome) ==
    LET endpoint == endpointFor(a.sends[s].file) IN
    IF endpoint = "transcribe"
    THEN LET t == transcribeResult(outcome) IN
         IF t.state = "rejected" THEN sendCatch(a, s, t.reason)
         ELSE sendFinally(addMessage(hideLoading(a), "ai",
                              <<"**Transcription:** ">> \o toText(t.value), FALSE), s)
    ELSE LET c == IF endpoint = "upload_and_chat" THEN uploadResult(outcome) ELSE outcome IN
         IF c.state = "rejected" THEN sendCatch(a, s, c.reason)
         ELSE streamMessage(a, s, "ai", c.value)

\* The sends awaiting promise o, in the order their continuations run.
RECURSIVE waitersFrom(_, _, _)
waitersFrom(a, o, s) ==
    IF s > MaxSends THEN <<>>
    ELSE (IF a.sends[s].pc = "awaiting" /\ a.sends[s].promise = o THEN <<s>> ELSE <<>>)
         \o waitersFrom(a, o, s + 1)

RECURSIVE resumeAll(_, _, _)
resumeAll(a, waiters, outcome) ==
    IF waiters = <<>> THEN a
    ELSE resumeAll(sendResume(a, Head(waiters), outcome), Tail(waiters), outcome)

\* Promise o settles: the request is over and every send awaiting it resumes.
settleSends(a, o, outcome) ==
    resumeAll([a EXCEPT !.requests[o] = NoRequest], waitersFrom(a, o, 1), outcome)

\* ---------------------------------------------------------------- actions
\* What a previous session can have left in the store: nothing, or a selected
\* model and the two messages of one completed chat turn.
SavedStates ==
    {[selectedModel |-> NoModel, chatMessages |-> [present |-> FALSE, value |-> <<>>]],
     [selectedModel |-> "m1",
      chatMessages |-> [present |-> TRUE, value |->
          <<[id |-> 1, type |-> "user", content |-> <<"y">>, timestamp |-> 0, cancelled |-> FALSE],
            [id |-> 2, type |-> "ai", content |-> <<"n">>, timestamp |-> 0, cancelled |-> FALSE]>>]]}

ConversationIds == {"conv_0"}

\* The constructor, lines 106-125.
Constructed(conv, storage) ==
    [currentModel |-> NoModel, messages |-> <<>>, messageIdCounter |-> 0, isLoading |-> FALSE,
     loadingTimer |-> "null", inputValue |-> <<>>, attachedFile |-> NoFile,
     errorModal |-> <<>>, conversationId |-> conv,
     localStorage |-> storage, sends |-> [s \in Sends |-> IdleSend],
     requests |-> [o \in Ops |-> NoRequest], now |-> 0, storageThrows |-> "no"]

InitApp(a) ==
    /\ currentModel = a.currentModel
    /\ messages = a.messages
    /\ messageIdCounter = a.messageIdCounter
    /\ isLoading = a.isLoading
    /\ loadingTimer = a.loadingTimer
    /\ inputValue = a.inputValue
    /\ attachedFile = a.attachedFile
    /\ errorModal = a.errorModal
    /\ conversationId = a.conversationId
    /\ localStorage = a.localStorage
    /\ sends = a.sends
    /\ requests = a.requests

\* No sendMessage call has returned at its guards yet.
NoCall ==
    [called |-> FALSE, currentModel |-> NoModel, isLoading |-> FALSE,
     inputValue |-> <<>>, attachedFile |-> NoFile]

\* The clock has some value and the store accepts writes.
InitEnv ==
    /\ now = 0 /\ storageThrows = "no" /\ nSends = 0 /\ nCancels = 0
    /\ rejectedCall = NoCall

\* ------------------------------------------ harness of the RequestManager
HarnessKeys == {<<"k1">>, <<"k2">>}

\* What a requestFn can settle with: its own result, or an error it raises.
\* A requestFn that observes the abort signal rejects with AbortError once
\* the signal has fired, and only then.
FnOutcomes(o) ==
    IF aborted[o] /\ observes[o] THEN {Rejected(AbortError)}
    ELSE {Fulfilled([from |-> o]), Rejected(FailedToFetch), Rejected(HttpError("500", "boom"))}

\* A caller calls makeRequest(key, requestFn); the requestFn observes the
\* abort signal or ignores it.
HarnessCall(key, obs) ==
    /\ nCalls < MaxCalls
    /\ LET c == nCalls + 1 IN
       /\ nCalls' = c
       /\ callKey' = [callKey EXCEPT ![c] = key]
       /\ entryAtCall' = [entryAtCall EXCEPT ![c] = IF has(activeRequests, key) THEN activeRequests[key] ELSE 0]
       /\ callPromise' = [callPromise EXCEPT ![c] = makeRequestPromise(RM, key, c)]
       /\ callOutcome' = [callOutcome EXCEPT ![c] = Pending]
       /\ observes' = [observes EXCEPT ![c] = obs]
       /\ SetRM(makeRequest(RM, key, c))
    /\ UNCHANGED <<appVars, envVars>>

\* The requestFn of op o settles; every call awaiting its promise settles too.
HarnessSettle(o) ==
    /\ requestPromise[o] = Pending
    /\ \E fnOutcome \in FnOutcomes(o) :
        /\ SetRM(settleRequest(RM, o, fnOutcome))
        /\ callOutcome' = [c \in Ops |->
              IF callOutcome[c] = Pending /\ callPromise[c] = o
              THEN executeRequest(fnOutcome) ELSE callOutcome[c]]
        /\ UNCHANGED <<nCalls, callKey, entryAtCall, callPromise, observes, appVars, envVars>>

\* The timeout timer of op o expires.
HarnessTimeout(o) ==
    /\ timeoutId[o] = "armed"
    /\ SetRM(timeoutCallback(RM, o))
    /\ UNCHANGED <<harnessVars, appVars, envVars>>

HarnessCancelAll ==
    /\ SetRM(cancelAllRequests(RM))
    /\ UNCHANGED <<harnessVars, appVars, envVars>>

InitHarness ==
    /\ nCalls = 0
    /\ callKey = [c \in Ops |-> NoKey]
    /\ entryAtCall = [c \in Ops |-> 0]
    /\ callPromise = [c \in Ops |-> 0]
    /\ callOutcome = [c \in Ops |-> NoPromise]
    /\ observes = [o \in Ops |-> TRUE]

\* The manager alone: the application is constructed and left untouched.
HarnessInit ==
    /\ InitRM
    /\ InitHarness
    /\ InitEnv
    /\ InitApp(Constructed("conv_0", [selectedModel |-> NoModel, chatMessages |-> [present |-> FALSE, value |-> <<>>]]))

HarnessNext ==
    \/ \E key \in HarnessKeys, obs \in BOOLEAN : HarnessCall(key, obs)
    \/ \E o \in Ops : HarnessSettle(o)
    \/ \E o \in Ops : HarnessTimeout(o)
    \/ HarnessCancelAll

SpecRM == HarnessInit /\ [][HarnessNext]_vars

\* ------------------------------------------------- application actions
\* The state once the constructor and initialize (lines 127-151) have run,
\* the backend having listed its models.
Init ==
    /\ InitRM
    /\ InitHarness
    /\ InitEnv
    /\ \E conv \in ConversationIds, storage \in SavedStates :
          InitApp(loadSavedState(Constructed(conv, storage), Models))

\* The user edits the message input.
TypeInput(t) ==
    /\ inputValue' = t
    /\ UNCHANGED <<rmVars, harnessVars, envVars, currentModel, messages, messageIdCounter, isLoading,
                   loadingTimer, attachedFile, errorModal, conversationId,
                   localStorage, sends, requests>>

\* The user attaches a file (lines 305-313, 333-342) or removes it (362-366).
AttachFile(f) ==
    /\ attachedFile' = f
    /\ UNCHANGED <<rmVars, harnessVars, envVars, currentModel, messages, messageIdCounter, isLoading,
                   loadingTimer, inputValue, errorModal, conversationId,
                   localStorage, sends, requests>>

RemoveFile ==
    /\ attachedFile.present
    /\ attachedFile' = NoFile
    /\ UNCHANGED <<rmVars, harnessVars, envVars, currentModel, messages, messageIdCounter, isLoading,
                   loadingTimer, inputValue, errorModal, conversationId,
                   localStorage, sends, requests>>

\* The send button or the Enter key, lines 236-246: a sendMessage call that
\* passes its guards. A call that returns at its guards changes no program
\* state (SendMessageCall records it). The clock has advanced since the
\* previous accepted send.
SendMessage ==
    /\ nSends < MaxSends
    /\ sendAccepted(App)
    /\ LET s == nSends + 1 IN
       /\ SetApp(sendMessage(App, RM, s))
       /\ SetRM(makeRequest(RM, sendKey(App), s))
       /\ nSends' = s
       /\ now' = now + 1
    /\ UNCHANGED <<harnessVars, storageThrows, nCancels, rejectedCall>>

\* The backend answers the request of op o with `res` (or the connection
\* fails): fetch settles, then makeRequest, then the send awaiting it.
BackendRespondsWith(o, res) ==
    LET fnOutcome == requestFn(requests[o].endpoint, res) IN
    /\ SetRM(settleRequest(RM, o, fnOutcome))
    /\ SetApp(settleSends(App, o, executeRequest(fnOutcome)))
    /\ UNCHANGED <<harnessVars, envVars>>

BackendResponds(o) ==
    /\ requestPromise[o] = Pending
    /\ requests[o] # NoRequest
    /\ \E res \in BackendResponses(requests[o].endpoint) : BackendRespondsWith(o, res)

\* The timeout timer of op o expires, lines 64-66: the signal aborts the
\* fetch, which rejects with AbortError before any other macrotask runs.
RequestTimeout(o) ==
    /\ timeoutId[o] = "armed"
    /\ requests[o] # NoRequest
    /\ LET fnOutcome == Rejected(AbortError) IN
          /\ SetRM(settleRequest(timeoutCallback(RM, o), o, fnOutcome))
          /\ SetApp(settleSends(App, o, executeRequest(fnOutcome)))
    /\ UNCHANGED <<harnessVars, envVars>>

\* An animation frame runs the typeWriter of send s, line 761.
AnimationFrame(s) ==
    /\ sends[s].pc = "streaming"
    /\ SetApp(typeWriter(App, s))
    /\ UNCHANGED <<rmVars, harnessVars, envVars>>

\* The cancel button of the loading overlay, lines 279-285. The handler is
\* bound at start-up and does not look at the state: the click is taken in
\* any state.
CancelLoading ==
    /\ nCancels < MaxCancels
    /\ nCancels' = nCancels + 1
    /\ SetRM(cancelAllRequests(RM))
    /\ SetApp(addMessage(hideLoading(App), "ai", CancelledText, TRUE))
    /\ UNCHANGED <<harnessVars, now, storageThrows, nSends, rejectedCall>>

\* The clear button, line 253.
ClearChat ==
    /\ SetApp(clearChat(App))
    /\ UNCHANGED <<rmVars, harnessVars, envVars>>

\* selectModel, lines 523-535 (a click on a model card).
SelectModel(model) ==
    /\ SetApp(saveState(clearChat([App EXCEPT !.currentModel = model])))
    /\ UNCHANGED <<rmVars, harnessVars, envVars>>

\* Array.prototype.findIndex(m => m.id === messageId), line 957: the first
\* index, 0 for none.
RECURSIVE findIndexFrom(_, _, _)
findIndexFrom(msgs, messageId, k) ==
    IF k > Len(msgs) THEN 0
    ELSE IF msgs[k].id = messageId THEN k
    ELSE findIndexFrom(msgs, messageId, k + 1)

findIndex(msgs, messageId) == findIndexFrom(msgs, messageId, 1)

\* A non-empty string is truthy, line 960.
truthy(x) == x.defined /\ x.v # <<>>

\* Array.prototype.splice(index, 1), line 961.
splice(seq, index) == SubSeq(seq, 1, index - 1) \o SubSeq(seq, index + 1, Len(seq))

\* The position of a message being revealed once the element `index` is gone.
spliceIndex(msgIndex, index) ==
    IF msgIndex = index THEN 0 ELSE IF msgIndex > index THEN msgIndex - 1 ELSE msgIndex

\* Whether retryMessage(messageId) reaches its call of sendMessage, lines 957-960.
retryFound(a, messageId) ==
    LET messageIndex == findIndex(a.messages, messageId) IN
    /\ messageIndex > 0
    /\ truthy(field(a.messages[messageIndex], "originalMessage"))

\* Mutant of retryMessage: the failed message stays in the list (the splice
\* of line 961 is missing).
retryMessageKeepsMessage(a, messageId) ==
    LET messageIndex == findIndex(a.messages, messageId) IN
    IF ~retryFound(a, messageId) THEN a
    ELSE [a EXCEPT !.inputValue = a.messages[messageIndex].originalMessage]

\* retryMessage, lines 956-969, up to its call of sendMessage.
retryMessage(a, messageId) ==
    LET messageIndex == findIndex(a.messages, messageId) IN
    IF ~retryFound(a, messageId) THEN a
    ELSE [a EXCEPT !.messages = splice(@, messageIndex),
                   !.sends = [s \in Sends |-> [a.sends[s] EXCEPT !.msgIndex = spliceIndex(@, messageIndex)]],
                   !.inputValue = a.messages[messageIndex].originalMessage]

\* A call of retryMessage(messageId), lines 956-975: the message is removed,
\* its text put in the input, and sendMessage called, which returns at once
\* when its guards fail.
RetryMessage(messageId) ==
    /\ nSends < MaxSends
    /\ LET a1 == retryMessage(App, messageId)
           s == nSends + 1 IN
       IF retryFound(App, messageId) /\ sendAccepted(a1)
       THEN /\ SetApp(sendMessage(a1, RM, s))
            /\ SetRM(makeRequest(RM, sendKey(a1), s))
            /\ nSends' = s
            /\ now' = now + 1
            /\ UNCHANGED <<harnessVars, storageThrows, nCancels, rejectedCall>>
       ELSE /\ SetApp(a1)
            /\ UNCHANGED <<rmVars, harnessVars, envVars>>

\* hideErrorModal, lines 1001-1008 (the user acknowledges the error).
HideErrorModal ==
    /\ errorModal # <<>>
    /\ errorModal' = <<>>
    /\ UNCHANGED <<rmVars, harnessVars, envVars, currentModel, messages, messageIdCounter, isLoading,
                   loadingTimer, inputValue, attachedFile, conversationId,
                   localStorage, sends, requests>>

\* The callback of the loading timer armed by showLoading, lines 1034-1037. It
\* is not a disjunct of Next: the timer is armed in no reachable state
\* (LoadingTimerNeverArmed).
LoadingTimerExpires ==
    /\ loadingTimer = "armed"
    /\ SetApp(showError(hideLoading(App), ErrWatchdog))
    /\ UNCHANGED <<rmVars, harnessVars, envVars>>

Next ==
    \/ \E t \in InputTexts : TypeInput(t)
    \/ \E f \in Files : AttachFile(f)
    \/ RemoveFile
    \/ SendMessage
    \/ \E o \in Ops : BackendResponds(o)
    \/ \E o \in Ops : RequestTimeout(o)
    \/ \E s \in Sends : AnimationFrame(s)
    \/ CancelLoading
    \/ ClearChat
    \/ \E model \in Models : SelectModel(model)
    \/ HideErrorModal

Spec == Init /\ [][Next]_vars

\* A store that holds a failed message as renderMessage (lines 821-834) and
\* retryMessage expect it: with or without the text to retry.
FailedMessage(id, text) ==
    [id |-> id, type |-> "ai", content |-> <<"failed">>, timestamp |-> 0, cancelled |-> FALSE,
     error |-> TRUE, canRetry |-> TRUE, originalMessage |-> text]
FailedMessageNoText(id) ==
    [id |-> id, type |-> "ai", content |-> <<"failed">>, timestamp |-> 0, cancelled |-> FALSE,
     error |-> TRUE, canRetry |-> TRUE]

RetryStates ==
    {[selectedModel |-> model,
      chatMessages |-> [present |-> TRUE, value |->
          <<[id |-> 1, type |-> "user", content |-> <<"y">>, timestamp |-> 0, cancelled |-> FALSE], failed>>]] :
        model \in {NoModel, "m1"},
        failed \in {FailedMessage(2, <<"h", "i">>), FailedMessage(2, <<" ">>), FailedMessageNoText(2)}}

\* The message ids retryMessage is called with: known ones and an unknown one.
RetryIds == {1, 2, 9}

InitRetry ==
    /\ InitRM
    /\ InitHarness
    /\ InitEnv
    /\ \E storage \in RetryStates :
          InitApp(loadSavedState(Constructed("conv_0", storage), Models))

NextRetry ==
    \/ \E t \in InputTexts : TypeInput(t)
    \/ \E f \in Files : AttachFile(f)
    \/ SendMessage
    \/ \E messageId \in RetryIds : RetryMessage(messageId)
    \/ \E o \in Ops : BackendResponds(o)
    \/ \E o \in Ops : RequestTimeout(o)
    \/ \E s \in Sends : AnimationFrame(s)

SpecRetry == InitRetry /\ [][NextRetry]_vars

\* The texts _streamMessage reveals: the first n digits, n up to MaxLen.
RevealTexts == {[k \in 1..n |-> numberToString(k)] : n \in 0..MaxLen}

\* The backend answers the upload request of op o with the content `text`.
UploadAnswers(o, text) ==
    /\ requestPromise[o] = Pending
    /\ requests[o].endpoint = "upload_and_chat"
    /\ BackendRespondsWith(o, OkChat(Str(text)))

InitReveal ==
    /\ InitRM
    /\ InitHarness
    /\ InitEnv
    /\ InitApp(loadSavedState(
           Constructed("conv_0", [selectedModel |-> "m1",
                                  chatMessages |-> [present |-> FALSE, value |-> <<>>]]),
           Models))

NextReveal ==
    \/ AttachFile(TextFile)
    \/ SendMessage
    \/ \E o \in Ops : \E text \in RevealTexts : UploadAnswers(o, text)
    \/ \E s \in Sends : AnimationFrame(s)
    \/ ClearChat

\* A session in which files are sent and their answers revealed. A requested
\* animation frame runs: the browser does not postpone it forever.
SpecReveal ==
    /\ InitReveal
    /\ [][NextReveal]_vars
    /\ \A s \in Sends : WF_vars(AnimationFrame(s))

\* A session restored with n plain messages, in which the user only chats.
PriorMessages(n) ==
    [k \in 1..n |-> [id |-> k, type |-> IF k % 2 = 1 THEN "user" ELSE "ai",
                     content |-> numberToString(k), timestamp |-> 0, cancelled |-> FALSE]]

InitWindow ==
    /\ InitRM
    /\ InitHarness
    /\ InitEnv
    /\ \E n \in 0..MaxPrior :
          InitApp(loadSavedState(
              Constructed("conv_0", [selectedModel |-> "m1",
                                     chatMessages |-> [present |-> TRUE, value |-> PriorMessages(n)]]),
              Models))

NextWindow ==
    \/ \E t \in InputTexts : TypeInput(t)
    \/ SendMessage
    \/ \E o \in Ops : BackendResponds(o)
    \/ \E o \in Ops : RequestTimeout(o)
    \/ \E s \in Sends : AnimationFrame(s)

SpecWindow == InitWindow /\ [][NextWindow]_vars

\* A call of sendMessage in any state, lines 236-246 and 561-567: the call
\* either passes the guards and starts a send, or returns at once, leaving the
\* program as it was. What the rejected call found is recorded.
SendMessageCall ==
    IF sendAccepted(App)
    THEN SendMessage
    ELSE /\ rejectedCall' = [called |-> TRUE, currentModel |-> currentModel,
                             isLoading |-> isLoading, inputValue |-> inputValue,
                             attachedFile |-> attachedFile]
         /\ UNCHANGED <<rmVars, harnessVars, appVars, now, storageThrows, nSends, nCancels>>

\* The guards of sendMessage: the user types, attaches, picks a model and
\* sends, in any order, whether or not a send is in progress (the backend
\* has not answered yet).
NextGuard ==
    \/ \E t \in InputTexts : TypeInput(t)
    \/ \E f \in Files : AttachFile(f)
    \/ RemoveFile
    \/ \E model \in Models : SelectModel(model)
    \/ SendMessageCall

SpecGuard == Init /\ [][NextGuard]_vars

\* Every way the backend can fail a request, besides the answers of
\* BackendResponses: other statuses the catch block of sendMessage tells apart
\* (lines 616-619), an error body without a detail field, and bodies that are
\* not JSON.
FailureResponses ==
    {Failure(400, <<"bad">>), Failure(405, <<"no">>),
     HttpResponse(500, FALSE, Undefined, Undefined, Undefined),
     HttpResponse(200, FALSE, Undefined, Undefined, Undefined),
     NotJson(502), NotJson(200)}

AllResponses(endpoint) == BackendResponses(endpoint) \cup FailureResponses

BackendAnswers(o) ==
    /\ requestPromise[o] = Pending
    /\ requests[o] # NoRequest
    /\ \E res \in AllResponses(requests[o].endpoint) : BackendRespondsWith(o, res)

\* A session with a selected model and an empty list, in which every kind of
\* failure can happen: rejected calls, failed requests, timeouts, cancels.
InitFailures ==
    /\ InitRM
    /\ InitHarness
    /\ InitEnv
    /\ InitApp(loadSavedState(
          Constructed("conv_0", [selectedModel |-> "m1",
                                 chatMessages |-> [present |-> FALSE, value |-> <<>>]]),
          Models))

NextFailures ==
    \/ TypeInput(<<"h", "i">>)
    \/ \E f \in Files : AttachFile(f)
    \/ SendMessageCall
    \/ \E o \in Ops : BackendAnswers(o)
    \/ \E o \in Ops : RequestTimeout(o)
    \/ \E s \in Sends : AnimationFrame(s)
    \/ CancelLoading

SpecFailures == InitFailures /\ [][NextFailures]_vars

\* A store that stops accepting writes, or accepts them again, at any moment:
\* every setItem throws (storage disabled), or only the one of the message
\* list does (quota exceeded).
StoreModes == {"no", "all", "chatMessages"}

StoreChanges(mode) ==
    /\ storageThrows # mode
    /\ storageThrows' = mode
    /\ UNCHANGED <<rmVars, harnessVars, appVars, now, nSends, nCancels, rejectedCall>>

NextStorage ==
    \/ TypeInput(<<"h", "i">>)
    \/ SendMessage
    \/ \E o \in Ops : BackendResponds(o)
    \/ \E s \in Sends : AnimationFrame(s)
    \/ ClearChat
    \/ \E model \in Models : SelectModel(model)
    \/ \E mode \in StoreModes : StoreChanges(mode)

SpecStorage == Init /\ [][NextStorage]_vars

\* Error answers of the backend: a status outside the success range and a
\* JSON body {detail}, whose text is the backend's to choose. Some details
\* contain the words and numbers the code looks for in error messages (lines
\* 92, 616-625).
ErrorStatuses == {500, 400}
ErrorDetails ==
    {<<"boom">>, <<"timeout">>, <<"network">>, <<"server">>,
     <<"4", "0", "0">>, <<"4", "0", "5">>, <<"Failed to fetch">>}

ServerRejects(o, status, detail) ==
    /\ requestPromise[o] = Pending
    /\ requests[o] # NoRequest
    /\ BackendRespondsWith(o, Failure(status, detail))

NextClassify ==
    \/ TypeInput(<<"h", "i">>)
    \/ \E f \in Files : AttachFile(f)
    \/ SendMessage
    \/ \E o \in Ops, status \in ErrorStatuses, detail \in ErrorDetails :
          ServerRejects(o, status, detail)
    \/ HideErrorModal

SpecClassify == InitFailures /\ [][NextClassify]_vars

\* ================================================================ claims
Settled(p) == p.state \in {"fulfilled", "rejected"}

\* C1: a makeRequest(k, op2) made while the entry of an earlier
\* makeRequest(k, op1) is still in activeRequests never invokes op2, op1 is
\* invoked exactly once, and both callers settle with the identical outcome.
C1_JoinSharesOutcome ==
    \A c \in Ops :
        entryAtCall[c] # 0 =>
            /\ invoked[c] = 0
            /\ invoked[entryAtCall[c]] = 1
            /\ callOutcome[c] = callOutcome[entryAtCall[c]]

C1_Witness ==
    \E c \in Ops :
        /\ entryAtCall[c] # 0
        /\ callOutcome[c] = Fulfilled([from |-> entryAtCall[c]])
        /\ callOutcome[entryAtCall[c]] = callOutcome[c]

\* C2: at the step where an operation settles (success, failure raised by
\* the operation, or timeout) its key is absent from activeRequests, and
\* whenever every submitted operation has settled activeRequests is empty.
AllSettled == \A o \in Ops : requestPromise[o] # Pending

C2_SettleRemoves ==
    \A o \in Ops :
        (requestPromise[o] = Pending /\ Settled(requestPromise'[o]))
            => opKey[o] \notin DOMAIN activeRequests'

C2_NoLeak == [](AllSettled => activeRequests = <<>>) /\ [][C2_SettleRemoves]_vars

C2_Witness ==
    /\ nCalls = MaxCalls
    /\ AllSettled
    /\ \E o1, o2 \in Ops :
          /\ callKey[o1] # callKey[o2]
          /\ callOutcome[o1].state = "fulfilled"
          /\ callOutcome[o2] = Rejected(NewError("timeout"))
    /\ activeRequests = <<>>

\* C3: once the timeout timer of an unsettled operation has expired, the
\* operation's cancellation token is signalled and the caller of makeRequest
\* observes Timeout and nothing else, whatever the operation does.
C3_TimeoutOutcome ==
    \A c \in Ops :
        (callPromise[c] # 0 /\ timeoutId[callPromise[c]] = "fired") =>
            /\ aborted[callPromise[c]]
            /\ callOutcome[c] \in {Pending, Rejected(NewError("timeout"))}

\* A send that was accepted and has not returned: it awaits its backend call
\* or the reveal of the answer.
Outstanding(s) == sends[s].pc \in {"awaiting", "streaming"}

\* The step is an accepted sendMessage.
SendAcceptedStep == nSends' = nSends + 1

\* The watchdog timer of showLoading is armed in no reachable state.
LoadingTimerNeverArmed == loadingTimer = "null"

\* C4: every accepted sendMessage arms the watchdog timer of maxLoadingTime
\* (which would force isLoading to false and show the timeout error when the
\* send is still outstanding at its expiry).
C4_SendArmsWatchdog == [][SendAcceptedStep => loadingTimer' = "armed"]_vars

\* The step runs the timeout callback of op o.
TimeoutStep(o) == ~aborted[o] /\ aborted'[o]

C5_TimeoutEndsSend ==
    \A s \in Sends :
        (sends[s].pc = "awaiting" /\ TimeoutStep(sends[s].promise)) =>
            /\ sends'[s].pc = "done"
            /\ errorModal' = ErrTimeout
            /\ ~isLoading'

C5_TimerPending ==
    \A s \in Sends :
        sends[s].pc = "awaiting" =>
            /\ timeoutId[sends[s].promise] = "armed"
            /\ requestPromise[sends[s].promise] = Pending
            /\ requests[sends[s].promise] # NoRequest

\* C5: as long as a send awaits its backend operation the timeout timer of
\* the operation stays armed on its open request, and the step at which the
\* timer expires ends the send: the timeout error is shown and isLoading is
\* false.
C5_TimeoutFailure == []C5_TimerPending /\ [][C5_TimeoutEndsSend]_vars

C5_Witness ==
    \E s \in Sends :
        /\ sends[s].pc = "done"
        /\ timeoutId[s] = "fired"
        /\ requestPromise[s].state = "rejected"
        /\ errorModal = ErrTimeout
        /\ ~isLoading

\* C6: isLoading is true if and only if some accepted sendMessage has started
\* and not yet finished.
C6_LoadingIffOutstanding == isLoading <=> (\E s \in Sends : Outstanding(s))

\* C7: at most one message is in the middle of a progressive reveal.
C7_OneReveal == Cardinality({s \in Sends : sends[s].pc = "streaming"}) <= 1

\* C8: the ids of the messages of the list are at least 1 and strictly
\* increasing in list order (hence pairwise distinct).
C8_IdsIncreasing ==
    \A k \in 1..Len(messages) :
        /\ messages[k].id >= 1
        /\ k > 1 => messages[k - 1].id < messages[k].id

\* A message as an entry of the history of a chat request.
HistoryEntry(m) == [role |-> m.type, content |-> m.content, timestamp |-> m.timestamp]

\* The last min(n, Len(msgs)) messages of msgs as history entries.
LastEntries(msgs, n) ==
    LET len == Len(msgs)
        m == IF len < n THEN len ELSE n
    IN [k \in 1..m |-> HistoryEntry(msgs[len - m + k])]

\* The step is an accepted sendMessage of text alone.
PlainChatSendStep == SendAcceptedStep /\ ~attachedFile.present

\* C9 as claimed: the history of the chat request of a plain send holds
\* exactly the last min(10, n) of the n messages the list held before the send.
C9_HistoryIsPriorWindow ==
    [][PlainChatSendStep => requests'[nSends'].history = LastEntries(messages, HistoryWindow)]_vars

\* C9 amended: the user message of the send is appended first, and the
\* history holds the last min(9, n) of the n prior messages, in their order,
\* followed by that user message, each as {role, content, timestamp}.
C9_HistoryWindow ==
    [][PlainChatSendStep =>
          LET current == messages'[Len(messages')] IN
          /\ messages' = Append(messages, current)
          /\ current.type = "user"
          /\ current.content = trim(inputValue)
          /\ requests'[nSends'].history =
                 LastEntries(messages, HistoryWindow - 1) \o <<HistoryEntry(current)>>]_vars

C9_Witness ==
    \E s \in Sends :
        /\ sends[s].pc = "awaiting"
        /\ requests[s].endpoint = "chat"
        /\ Len(messages) = MaxPrior + 1
        /\ Len(requests[s].history) = HistoryWindow
        /\ requests[s].history[1].content = numberToString(MaxPrior - HistoryWindow + 2)
        /\ requests[s].history[HistoryWindow].content = sends[s].text

\* What the application shows for the content c of a successful chat response.
ShownContent(c) == IF c.defined /\ c.v # <<>> THEN c.v ELSE NoResponseReceived

\* An accepted send of text alone issues exactly one operation, a chat
\* request with message = t, and appends the user message t.
C10_SendIssuesChat ==
    PlainChatSendStep =>
        LET s == nSends'
            current == messages'[Len(messages')] IN
        /\ requests'[s].endpoint = "chat"
        /\ requests'[s].message = trim(inputValue)
        /\ \A o \in Ops \ {s} : requests'[o] = requests[o]
        /\ invoked' = [invoked EXCEPT ![s] = 1]
        /\ messages' = Append(messages, current)
        /\ current.type = "user"
        /\ current.content = trim(inputValue)

\* The chat request of send s succeeds with the response res.
ChatSucceedsStep(s, res) ==
    /\ sends[s].pc = "awaiting"
    /\ sends[s].promise = s
    /\ requests[s].endpoint = "chat"
    /\ resOk(res) /\ res.hasResponse
    /\ BackendRespondsWith(s, res)

\* On success the list is extended by one assistant message, whose reveal
\* starts, and `content` is what the reveal will show.
ChatAnswerAppended(s, content) ==
    LET answer == messages'[Len(messages')] IN
    /\ sends'[s].pc = "streaming"
    /\ sends'[s].fullContent = content
    /\ sends'[s].msgIndex = Len(messages')
    /\ messages' = Append(messages, answer)
    /\ answer.type = "ai"

\* A frame of the reveal of send s changes only the content of its message,
\* and the reveal ends with the whole content shown.
C10_RevealCompletes ==
    \A s \in Sends :
        (/\ sends[s].pc = "streaming"
         /\ sends[s].msgIndex > 0
         /\ sends'[s].i # sends[s].i \/ sends'[s].pc = "done") =>
            LET k == sends[s].msgIndex IN
            IF sends'[s].pc = "done"
            THEN /\ messages' = messages
                 /\ messages[k].type = "ai"
                 /\ messages[k].content = sends[s].fullContent
            ELSE messages' = [messages EXCEPT ![k].content = SubSeq(sends[s].fullContent, 1, sends'[s].i)]

\* When the reveal of a plain chat send ends with no cancel and no clear
\* since the send, the list ends with the user message t and the answer.
C10_UserThenAnswer ==
    \A s \in Sends :
        (/\ sends[s].pc = "streaming" /\ sends'[s].pc = "done"
         /\ ~sends[s].file.present
         /\ nCancels = 0
         /\ sends[s].msgIndex > 1) =>
            LET k == sends[s].msgIndex IN
            /\ k = Len(messages')
            /\ messages'[k - 1].type = "user"
            /\ messages'[k - 1].content = sends[s].text
            /\ messages'[k].content = sends[s].fullContent

\* C10 as claimed: a plain send issues exactly one chat operation with
\* message = t and nothing else; when it succeeds with response content c the
\* list is extended by the user message t and then by an assistant message
\* whose final content is c.
C10_AnswerIsContent ==
    [][/\ C10_SendIssuesChat
       /\ \A s \in Sends : \A res \in BackendResponses("chat") :
             (ChatSucceedsStep(s, res) /\ res.content.defined) => ChatAnswerAppended(s, res.content.v)
       /\ C10_RevealCompletes
       /\ C10_UserThenAnswer]_vars

\* C10 amended: as claimed for a non-empty content c; for an empty or missing
\* content the final content of the assistant message is 'No response received'.
C10_AnswerIsShownContent ==
    [][/\ C10_SendIssuesChat
       /\ \A s \in Sends : \A res \in BackendResponses("chat") :
             ChatSucceedsStep(s, res) => ChatAnswerAppended(s, ShownContent(res.content))
       /\ C10_RevealCompletes
       /\ C10_UserThenAnswer]_vars

C10_Witness ==
    /\ nSends = 2 /\ nCancels = 0
    /\ \A s \in Sends : sends[s].pc = "done"
    /\ Len(messages) = 4
    /\ messages[1].type = "user" /\ messages[1].content = <<"h", "i">>
    /\ messages[2].type = "ai" /\ messages[2].content = <<"o", "k">>
    /\ messages[3].type = "user" /\ messages[3].content = <<"h", "i">>
    /\ messages[4].type = "ai" /\ messages[4].content = NoResponseReceived

\* The transcription request of send s succeeds with the response res.
TranscribeSucceedsStep(s, res) ==
    /\ sends[s].pc = "awaiting"
    /\ sends[s].promise = s
    /\ requests[s].endpoint = "transcribe"
    /\ resOk(res) /\ res.transcription.defined
    /\ BackendRespondsWith(s, res)

C11_TranscriptionAppended ==
    \A s \in Sends : \A res \in BackendResponses("transcribe") :
        TranscribeSucceedsStep(s, res) =>
            LET answer == messages'[Len(messages')] IN
            /\ messages' = Append(messages, answer)
            /\ answer.type = "ai"
            /\ answer.content = <<"**Transcription:** ">> \o res.transcription.v
            /\ includes(answer.content, res.transcription.v)
            /\ sends'[s].pc = "done"
            /\ ~isLoading'

C11_NoRevealOfTranscription ==
    \A s \in Sends :
        sends[s].pc = "streaming" => endpointFor(sends[s].file) # "transcribe"

\* C11: when the transcription request of an audio send succeeds with the
\* transcription x, one assistant message whose content is complete and
\* contains x is appended in that step, the send returns with isLoading false,
\* and no audio send is ever in a progressive reveal.
C11_TranscriptionFinal == [][C11_TranscriptionAppended]_vars /\ []C11_NoRevealOfTranscription

C11_Witness ==
    \E s \in Sends :
        /\ sends[s].pc = "done"
        /\ requestPromise[s].state = "fulfilled"
        /\ ~isLoading
        /\ messages # <<>>
        /\ messages[Len(messages)].type = "ai"
        /\ messages[Len(messages)].content = <<"**Transcription:** ", "h", "i">>

\* An accepted send issues one operation, of the kind its attachment selects.
C12_SendIssuesOne ==
    SendAcceptedStep =>
        LET s == nSends' IN
        /\ requests'[s].endpoint =
              IF attachedFile.present /\ Head(attachedFile.type) = "audio" THEN "transcribe"
              ELSE IF attachedFile.present THEN "upload_and_chat"
              ELSE "chat"
        /\ invoked' = [invoked EXCEPT ![s] = 1]
        /\ \A o \in Ops \ {s} : requests'[o] = requests[o]

\* No other step issues an operation.
C12_OthersIssueNone ==
    ~SendAcceptedStep =>
        /\ invoked' = invoked
        /\ \A o \in Ops : requests'[o] \in {requests[o], NoRequest}

\* C12: every accepted send issues exactly one backend operation: transcribe
\* for an attachment whose type begins with "audio", upload_and_chat for any
\* other attachment, chat without attachment; nothing else issues one.
C12_OneOperationPerSend == [][C12_SendIssuesOne /\ C12_OthersIssueNone]_vars

C12_Witness ==
    /\ nSends = 2
    /\ requests[1].endpoint = "transcribe" /\ invoked[1] = 1
    /\ requests[2].endpoint = "upload_and_chat" /\ invoked[2] = 1
    /\ \A s \in Sends : sends[s].pc = "awaiting"

\* The chat request of send s fails: the backend answers with an error
\* status, or the connection fails.
ChatFailsStep(s, res) ==
    /\ sends[s].pc = "awaiting"
    /\ sends[s].promise = s
    /\ requests[s].endpoint = "chat"
    /\ ~res.network \/ ~resOk(res)
    /\ BackendRespondsWith(s, res)

\* C13: when the chat operation of a send with text t fails, the list gains
\* a message that carries the error, is marked retryable (canRetry) and
\* carries the original text t; and only messages of failed chat operations
\* are marked so.
C13_FailureMessageRetryable ==
    [][\A s \in Sends : \A res \in BackendResponses("chat") :
          ChatFailsStep(s, res) =>
              /\ Len(messages') = Len(messages) + 1
              /\ LET failed == messages'[Len(messages')] IN
                 /\ field(failed, "error").defined
                 /\ field(failed, "canRetry") = Str(TRUE)
                 /\ field(failed, "originalMessage") = Str(sends[s].text)]_vars

\* The first position of a message with the id in the list, 0 for none.
FirstWithId(messageId) ==
    IF \E k \in 1..Len(messages) : messages[k].id = messageId
    THEN CHOOSE k \in 1..Len(messages) :
            /\ messages[k].id = messageId
            /\ \A j \in 1..(k - 1) : messages[j].id # messageId
    ELSE 0

\* The message with the id carries an original text.
CarriesOriginalText(messageId) ==
    /\ FirstWithId(messageId) > 0
    /\ "originalMessage" \in DOMAIN messages[FirstWithId(messageId)]
    /\ messages[FirstWithId(messageId)].originalMessage # <<>>

OriginalText(messageId) == messages[FirstWithId(messageId)].originalMessage

\* The list without the message with the id.
WithoutMessage(messageId) ==
    LET k == FirstWithId(messageId) IN
    [j \in 1..(Len(messages) - 1) |-> IF j < k THEN messages[j] ELSE messages[j + 1]]

\* The step leaves the session unchanged and issues no operation.
SessionUnchanged == UNCHANGED vars

RevealCompletes(s) == sends[s].pc = "streaming" /\ sends'[s].pc = "done"

\* During the reveal the message holds the first i characters of the text.
C15_ContentIsPrefix ==
    \A s \in Sends :
        sends[s].pc = "streaming" =>
            /\ sends[s].i <= Len(sends[s].fullContent)
            /\ sends[s].message.content = SubSeq(sends[s].fullContent, 1, sends[s].i)

\* The reveal of the text of the answer starts with that text, ends only when
\* the message holds all of it, and ends once.
C15_RevealSteps ==
    /\ \A o \in Ops : \A text \in RevealTexts :
          (UploadAnswers(o, text) /\ sends[o].pc = "awaiting") =>
              \/ sends'[o].pc = "streaming" /\ sends'[o].fullContent = text
              \/ sends'[o].pc = "done" /\ text = <<>> /\ messages'[Len(messages')].content = text
    /\ \A s \in Sends :
          /\ RevealCompletes(s) => sends[s].message.content = sends[s].fullContent
          /\ sends[s].pc = "done" => sends'[s].pc = "done"

\* C15: the reveal of every text completes when frames keep running, the
\* final content of the message is exactly the text, and the promise resolves
\* once, after the last character was appended.
C15_RevealTerminates ==
    /\ []C15_ContentIsPrefix
    /\ [][C15_RevealSteps]_vars
    /\ \A s \in Sends : (sends[s].pc = "streaming") ~> (sends[s].pc = "done")

C15_Witness ==
    \E s \in Sends :
        /\ sends[s].pc = "done"
        /\ messages # <<>>
        /\ messages[Len(messages)].type = "ai"
        /\ messages[Len(messages)].content = [k \in 1..MaxLen |-> numberToString(k)]
        /\ localStorage.chatMessages.value = messages

\* The step is a click on the cancel button.
CancelStep == nCancels' = nCancels + 1

\* Op o is pending and was cancelled: its entry is gone from activeRequests
\* (the keys of the sends are distinct, and only cancelAllRequests removes
\* the entry of a pending op).
CancelledPending(o) ==
    /\ requestPromise[o] = Pending
    /\ opKey[o] \notin DOMAIN activeRequests

\* C16: a cancel empties activeRequests, and when the operation of a
\* cancelled send later succeeds, fails or times out, no message is appended
\* or revealed and no error is shown for it.
C16_CancelStopsReaction ==
    [][/\ CancelStep => activeRequests' = <<>>
       /\ \A s \in Sends :
             (/\ sends[s].pc = "awaiting"
              /\ CancelledPending(sends[s].promise)
              /\ requestPromise'[sends[s].promise] # Pending) =>
                 /\ messages' = messages
                 /\ errorModal' = errorModal
                 /\ sends'[s].pc # "streaming"]_vars


\* A sendMessage call returned at its guards / passed them and issued its
\* backend operation.
RejectedStep == rejectedCall' # rejectedCall
SendStarted ==
    /\ SendAcceptedStep
    /\ isLoading'
    /\ invoked'[nSends'] = 1
    /\ requests'[nSends'] # NoRequest
NothingChanged == UNCHANGED <<rmVars, appVars>>

\* C17 as stated: from Idle, sendMessage starts a send (isLoading becomes
\* true and a backend operation is issued) exactly when the text is non-empty,
\* or an attachment is present, or a model is selected; otherwise it changes
\* no state.
C17_SendIffAnyInput ==
    [][(~isLoading /\ (SendAcceptedStep \/ RejectedStep)) =>
          IF \/ trim(inputValue) # <<>>
             \/ attachedFile.present
             \/ currentModel # NoModel
          THEN SendStarted
          ELSE RejectedStep /\ NothingChanged]_vars

\* C17, amended: from Idle, sendMessage starts a send (isLoading becomes true
\* and a backend operation is issued) exactly when a model is selected and
\* the trimmed text is non-empty or an attachment is present; otherwise it
\* changes no state.
C17_SendIffModelAndInput ==
    [][(~isLoading /\ (SendAcceptedStep \/ RejectedStep)) =>
          IF /\ currentModel # NoModel
             /\ (trim(inputValue) # <<>> \/ attachedFile.present)
          THEN SendStarted
          ELSE RejectedStep /\ NothingChanged]_vars

\* A call with text but no model was rejected, and after the model was
\* selected the call was accepted.
C17_Witness ==
    /\ rejectedCall.called
    /\ ~rejectedCall.isLoading
    /\ rejectedCall.currentModel = NoModel
    /\ trim(rejectedCall.inputValue) # <<>>
    /\ nSends = 1
    /\ isLoading
    /\ invoked[1] = 1

\* The messages a step appends to the list.
Appended == {k \in 1..Len(messages') : k > Len(messages)}

\* C18: no step changes conversationId; a clearChat empties the message list
\* and leaves conversationId and the id counter as they were; the counter
\* never decreases and every message a step appends gets an id above the
\* counter before the step, so ids issued after a clear exceed all ids issued
\* before it.
C18_ClearKeepsIdentity ==
    [][/\ conversationId' = conversationId
       /\ messageIdCounter' >= messageIdCounter
       /\ ClearChat => /\ messages' = <<>>
                       /\ messageIdCounter' = messageIdCounter
       /\ \A k \in Appended :
              /\ messages'[k].id > messageIdCounter
              /\ messages'[k].id <= messageIdCounter']_vars

\* After two sends and a clear, the list starts with a message whose id is
\* above the ids issued before the clear.
C18_Witness ==
    /\ nSends = 2
    /\ messages # <<>>
    /\ messages[1].id >= 3
    /\ messages[Len(messages)].id = messageIdCounter
    /\ conversationId = "conv_0"

\* C19: a cancellation requested while the message of a send is being
\* revealed ends the reveal at once: the message holds the full text and the
\* completion signal has fired, so no further one-character step follows.
C19_CancelFinalizesReveal ==
    [][\A s \in Sends :
          (CancelStep /\ sends[s].pc = "streaming") =>
              /\ sends'[s].pc = "done"
              /\ sends[s].msgIndex > 0 =>
                     messages'[sends[s].msgIndex].content = sends[s].fullContent]_vars

\* C20: a sendMessage call that finds a blank (empty or whitespace-only) text
\* and no attachment returns before any network call: no operation is issued,
\* no message is appended, and isLoading, the attachment and the id counter
\* stay as they were.
C20_BlankSendRejected ==
    [][(/\ SendAcceptedStep \/ RejectedStep
        /\ trim(inputValue) = <<>>
        /\ ~attachedFile.present) =>
          /\ RejectedStep
          /\ UNCHANGED <<invoked, requests, activeRequests, requestPromise>>
          /\ UNCHANGED <<messages, isLoading, attachedFile, messageIdCounter>>]_vars

\* With a model selected and no send in progress, a call that found a
\* whitespace-only text and no attachment returned, and nothing was sent.
C20_Witness ==
    /\ rejectedCall.called
    /\ rejectedCall.currentModel # NoModel
    /\ ~rejectedCall.isLoading
    /\ rejectedCall.inputValue = <<" ">>
    /\ ~rejectedCall.attachedFile.present
    /\ nSends = 0
    /\ inputValue = <<" ">>
    /\ ~isLoading

\* The step settles the promise that send s made and awaits.
SettlesStep(s) ==
    /\ sends[s].pc = "awaiting"
    /\ sends[s].promise = s
    /\ requestPromise[s] = Pending /\ requestPromise'[s] # Pending

\* The step leaves an error on show or appends a message to the list.
ShownToUser == errorModal' # <<>> \/ Len(messages') > Len(messages)

\* A sendMessage call was rejected for its input: blank text, no attachment.
ValidationErrorStep ==
    /\ RejectedStep
    /\ ~isLoading /\ currentModel # NoModel
    /\ trim(inputValue) = <<>> /\ ~attachedFile.present

\* Network, ServerError and MalformedResponse are shown, and their operation
\* had been issued: a request that is rejected (no connection, an error
\* status, a body that is not JSON or lacks the response) leaves the error
\* modal on show, and one that is fulfilled with a body lacking the content
\* leaves the modal on show or a message in the list.
C21_RequestFailureShown ==
    \A s \in Sends :
        SettlesStep(s) =>
            /\ invoked[s] = 1
            /\ IF requestPromise'[s].state = "rejected"
               THEN errorModal' # <<>>
               ELSE ShownToUser

\* Timeout is shown, and its operation had been issued.
C21_TimeoutShown ==
    \A s \in Sends :
        (sends[s].pc = "awaiting" /\ TimeoutStep(sends[s].promise)) =>
            errorModal' = ErrTimeout /\ invoked[sends[s].promise] = 1

\* Cancelled is shown as a message, and the cancel issues no operation.
C21_CancelledShown ==
    CancelStep =>
        /\ Len(messages') = Len(messages) + 1
        /\ messages'[Len(messages')].content = CancelledText
        /\ UNCHANGED <<invoked, requests>>

MemoryOf(a) ==
    [messages |-> a.messages, currentModel |-> a.currentModel, isLoading |-> a.isLoading,
     messageIdCounter |-> a.messageIdCounter, attachedFile |-> a.attachedFile,
     inputValue |-> a.inputValue, errorModal |-> a.errorModal, sends |-> a.sends]
MemoryAfter ==
    [messages |-> messages', currentModel |-> currentModel', isLoading |-> isLoading',
     messageIdCounter |-> messageIdCounter', attachedFile |-> attachedFile',
     inputValue |-> inputValue', errorModal |-> errorModal', sends |-> sends']

\* The application with a store that accepts every write.
WritesSucceed(a) == [a EXCEPT !.storageThrows = "no"]

\* C22: whatever the store does with the writes of saveState, the three
\* operations that save leave the in-memory session (message list, selected
\* model, isLoading, and the rest of it) as they would with a store that
\* accepts the writes, and run to their end: no error is reported, and the
\* send whose reveal ends returns with isLoading false.
C22_SaveFailureIsHarmless ==
    [][/\ ClearChat => MemoryAfter = MemoryOf(clearChat(WritesSucceed(App)))
       /\ \A model \in Models :
             SelectModel(model) =>
                MemoryAfter =
                   MemoryOf(saveState(clearChat([WritesSucceed(App) EXCEPT !.currentModel = model])))
       /\ \A s \in Sends :
             (sends[s].pc = "streaming" /\ sends[s].i = Len(sends[s].fullContent)
                                       /\ AnimationFrame(s)) =>
                /\ MemoryAfter = MemoryOf(typeWriter(WritesSucceed(App), s))
                /\ sends'[s].pc = "done"
                /\ ~isLoading'
                /\ errorModal' = errorModal]_vars

\* With a store that rejects every write, a send has completed: the answer
\* is in the list in full while the store still holds no list.
C22_Witness ==
    /\ storageThrows = "all"
    /\ sends[1].pc = "done"
    /\ ~isLoading
    /\ errorModal = <<>>
    /\ Len(messages) = 2
    /\ messages[2].content = <<"o", "k">>
    /\ ~localStorage.chatMessages.present

\* The failure the code raises for an error status: its message carries the
\* status and the detail.
ServerError(status, detail) ==
    [name |-> "Error", message |-> <<"HTTP ">> \o numberToString(status) \o <<": ">> \o detail]

\* The backend answers the operation of send s with an error status.
ErrorStatusStep(s, res) ==
    /\ res.network /\ ~resOk(res)
    /\ BackendRespondsWith(s, res)

\* C23: an operation answered with a status outside the success range fails
\* with a ServerError carrying that status and the detail of the body, the
\* empty string when the body cannot be parsed.
C23_ErrorStatusIsServerError ==
    [][\A s \in Sends :
          (SettlesStep(s) /\ requestPromise'[s].state = "rejected") =>
              \A res \in AllResponses(requests[s].endpoint) :
                  ErrorStatusStep(s, res) =>
                      executeRequest(requestFn(requests[s].endpoint, res)) =
                          Rejected(ServerError(res.status,
                                               IF res.json THEN toText(res.detail) ELSE <<>>))]_vars

\* The message stands for an attached file (lines 572-574).
IsPlaceholder(m) == \E f \in Files : m.content = placeholder(f)

\* C24: the history of the chat request of a plain send holds no attachment
\* placeholder, and is the window of the last 10 messages that are not
\* placeholders.
C24_NoPlaceholderInHistory ==
    [][PlainChatSendStep =>
          LET sent == requests'[nSends'].history
              NotPlaceholder(m) == ~IsPlaceholder(m)
          IN /\ \A k \in 1..Len(sent) : ~IsPlaceholder(sent[k])
             /\ sent = LastEntries(SelectSeq(messages', NotPlaceholder), HistoryWindow)]_vars

\* The message of the list that send s is revealing (0: none, the list was
\* cleared since).
Revealing(k) == \E s \in Sends : sends[s].pc = "streaming" /\ sends[s].msgIndex = k

\* While a text is revealed the message, in the list and as the reveal holds
\* it, is the prefix of the text revealed so far.
C25_PrefixOfText ==
    \A s \in Sends :
        sends[s].pc = "streaming" =>
            LET text == sends[s].fullContent
                k == sends[s].msgIndex
            IN /\ sends[s].i <= Len(text)
               /\ sends[s].message.content = SubSeq(text, 1, sends[s].i)
               /\ k > 0 => /\ k <= Len(messages)
                           /\ messages[k].content = sends[s].message.content

\* A step of the reveal appends the next character of the text and nothing
\* else; the text to reveal stays the same.
C25_OneCharacterPerStep ==
    \A s \in Sends :
        (sends[s].pc = "streaming" /\ sends'[s].pc = "streaming") =>
            /\ sends'[s].fullContent = sends[s].fullContent
            /\ \/ sends'[s].message.content = sends[s].message.content
               \/ /\ sends'[s].i = sends[s].i + 1
                  /\ sends'[s].message.content =
                        Append(sends[s].message.content, sends[s].fullContent[sends[s].i + 1])

\* A message of the list that is not being revealed keeps its content as long
\* as it is in the list.
C25_FinalizedFrozen ==
    \A k \in 1..Len(messages) :
        (~Revealing(k) /\ k <= Len(messages')) => messages'[k].content = messages[k].content

\* C25: during the reveal of a text the content of the message is a prefix
\* of the text, every reveal step appends exactly the next character and
\* leaves the characters before it alone, and the content of a finalized
\* message never changes.
C25_ContentOnlyGrows ==
    /\ []C25_PrefixOfText
    /\ [][C25_OneCharacterPerStep /\ C25_FinalizedFrozen]_vars

\* The answer 'ok' of a send is half revealed, after finalized messages.
C25_Witness ==
    \E s \in Sends :
        /\ sends[s].pc = "streaming"
        /\ sends[s].i = 1
        /\ sends[s].msgIndex >= 2
        /\ messages[sends[s].msgIndex].content = <<"o">>
        /\ sends[s].fullContent = <<"o", "k">>

\* Operation o settles in this step.
SettleStep(o) == requestPromise[o] = Pending /\ Settled(requestPromise'[o])

\* When an operation settles its timer is no longer armed, and the cleanup of
\* the call that created it runs: its key, and no other, is deleted.
C26_CleanupAtSettle ==
    \A o \in Ops :
        SettleStep(o) =>
            /\ timeoutId'[o] # "armed"
            /\ opKey[o] # NoKey /\ opKey'[o] = NoKey
            /\ DOMAIN activeRequests' = DOMAIN activeRequests \ {opKey[o]}

\* After an operation has settled its token is not signalled, its timer does
\* not change and its cleanup does not run again.
C26_NothingAfterSettle ==
    \A o \in Ops :
        Settled(requestPromise[o]) =>
            /\ aborted'[o] = aborted[o]
            /\ timeoutId'[o] = timeoutId[o]
            /\ opKey[o] = NoKey /\ opKey'[o] = NoKey

\* A call that joined an entry owns no timer and runs no cleanup: it deletes
\* nothing when the promise it awaits settles.
C26_JoinersDeleteNothing ==
    \A c \in Ops :
        entryAtCall[c] # 0 =>
            /\ timeoutId'[c] = "none"
            /\ opKey'[c] = NoKey
            /\ (callOutcome[c] = Pending /\ callOutcome'[c] # Pending) =>
                   DOMAIN activeRequests' = DOMAIN activeRequests \ {opKey[callPromise[c]]}

UnsettledUnder(key) ==
    {o \in Ops : invoked[o] = 1 /\ callKey[o] = key /\ requestPromise[o] = Pending}

\* C27: for every key, at most one operation that makeRequest invoked under
\* the key is unsettled.
C27_OnePendingPerKey == \A key \in HarnessKeys : Cardinality(UnsettledUnder(key)) <= 1

\* C28: cancelAllRequests leaves activeRequests empty and no timer armed for
\* an operation that is pending, and signals no token; the timer of an
\* operation that was pending when it was cancelled never fires afterwards.
C28_CancelClearsTimers ==
    [][/\ HarnessCancelAll =>
             /\ activeRequests' = <<>>
             /\ aborted' = aborted
             /\ \A o \in Ops : requestPromise[o] = Pending => timeoutId'[o] # "armed"
       /\ \A o \in Ops : CancelledPending(o) => ~TimeoutStep(o)]_vars

\* C29: while isLoading is true no sendMessage call is accepted, and a call
\* that is rejected changes nothing; from its acceptance to its return,
\* reveal included, a send keeps isLoading true in every step that is not a
\* cancel.
C29_LoadingThroughoutSend ==
    [][/\ isLoading => ~SendAcceptedStep
       /\ (isLoading /\ RejectedStep) => NothingChanged
       /\ SendAcceptedStep => isLoading'
       /\ \A s \in Sends :
             (Outstanding(s) /\ isLoading /\ sends'[s].pc \in {"awaiting", "streaming"}
                            /\ ~CancelStep) => isLoading']_vars

\* Message k of the list is the response of a send: an assistant message
\* that is not the notice of a cancel.
IsResponse(k) == messages[k].type = "ai" /\ ~messages[k].cancelled

\* Message j is a user message of send s: its text or the placeholder of its
\* file.
IsUserMessageOf(j, s) ==
    /\ messages[j].type = "user"
    /\ \/ messages[j].content = sends[s].text
       \/ sends[s].file.present /\ messages[j].content = placeholder(sends[s].file)

\* C30: every response in the list comes after a user message, and the
\* response a send is revealing comes after a user message of that send.
C30_ResponseAfterUserMessage ==
    /\ \A k \in 1..Len(messages) :
          IsResponse(k) => \E j \in 1..(k - 1) : messages[j].type = "user"
    /\ \A s \in Sends :
          (sends[s].pc = "streaming" /\ sends[s].msgIndex > 0) =>
              \E j \in 1..(sends[s].msgIndex - 1) : IsUserMessageOf(j, s)

\* C31: the settlement of an operation leaves the entries of the other
\* operations in activeRequests: an operation whose entry cancelAllRequests
\* cleared does not, when it settles, delete the entry a newer operation
\* holds under the same key, so a later makeRequest of that key still joins
\* the newer operation.
C31_SettleKeepsOtherEntries ==
    [][\A o \in Ops :
          SettleStep(o) =>
              \A key \in DOMAIN activeRequests :
                  activeRequests[key] # o =>
                      /\ key \in DOMAIN activeRequests'
                      /\ activeRequests'[key] = activeRequests[key]]_vars

\* The text the error modal shows when the operation of send s is answered
\* with the status and the detail.
ShownFor(s, status, detail) ==
    sendResume(App, s,
               executeRequest(requestFn(requests[s].endpoint, Failure(status, detail)))).errorModal

\* C32: the message shown for a ServerError depends on its status alone: the
\* same status with any other detail text is shown with the same message, and
\* a ServerError is never shown with the timeout or the network message.
C32_ClassifiedByStatus ==
    [][\A s \in Sends :
          SettlesStep(s) =>
              \A status \in ErrorStatuses, detail \in ErrorDetails :
                  ServerRejects(s, status, detail) =>
                      /\ errorModal' \notin {ErrTimeout, ErrNetwork}
                      /\ \A other \in ErrorDetails :
                            ShownFor(s, status, other) = errorModal']_vars

\* The exchange is a failure of the request of the endpoint: no connection,
\* an error status, or a success status with a body that lacks the content
\* the caller reads (lines 656, 678, 706-707).
FailedAnswer(endpoint, res) ==
    \/ ~res.network
    \/ ~resOk(res)
    \/ ~res.json
    \/ endpoint = "transcribe" /\ ~res.transcription.defined
    \/ endpoint # "transcribe" /\ (~res.hasResponse \/ ~res.content.defined)

\* C33: a send that ends in failure (timeout, no connection, error status,
\* success body without the content) leaves the message list as it was: no
\* assistant message is added, none with empty content in particular.
C33_FailureAddsNoMessage ==
    [][\A s \in Sends :
          SettlesStep(s) =>
              /\ TimeoutStep(s) => messages' = messages
              /\ \A res \in BackendResponses(requests[s].endpoint) :
                    (FailedAnswer(requests[s].endpoint, res) /\ BackendRespondsWith(s, res)) =>
                        /\ messages' = messages
                        /\ \A k \in 1..Len(messages') :
                              messages'[k].type = "ai" => messages'[k].content # <<>>]_vars

\* The list stored under chatMessages is the serialisation of the list in
\* memory (nothing stored counts as the empty list).
PersistedUpToDate ==
    IF localStorage.chatMessages.present
    THEN localStorage.chatMessages.value = JSONstringify(messages)
    ELSE messages = <<>>

\* C34: whenever the session is idle (isLoading false, no send outstanding)
\* and the store accepts writes, the list persisted under chatMessages equals
\* the list in memory.
C34_IdlePersistedUpToDate ==
    (~isLoading /\ storageThrows = "no" /\ \A s \in Sends : ~Outstanding(s)) => PersistedUpToDate

\* C35: in a plain chat send of text t the user message for t is appended
\* before the request is built: t is the message field of the request and the
\* content of the last entry of its history, which is the entry of the last
\* message of the list, and the history holds at most 10 entries, that one
\* included.
C35_SentTextEndsHistory ==
    [][PlainChatSendStep =>
          LET request == requests'[nSends']
              n == Len(request.history)
              t == trim(inputValue)
          IN /\ request.endpoint = "chat"
             /\ request.message = t
             /\ Len(messages') = Len(messages) + 1
             /\ n >= 1
             /\ n <= HistoryWindow
             /\ n = IF Len(messages) < HistoryWindow THEN Len(messages) + 1 ELSE HistoryWindow
             /\ request.history[n].role = "user"
             /\ request.history[n].content = t
             /\ request.history[n] = HistoryEntry(messages'[Len(messages')])]_vars

C35_Witness ==
    \E s \in Sends :
        /\ sends[s].pc = "awaiting"
        /\ requests[s].endpoint = "chat"
        /\ requests[s].message = sends[s].text
        /\ Len(messages) > HistoryWindow
        /\ Len(requests[s].history) = HistoryWindow
        /\ requests[s].history[HistoryWindow] = HistoryEntry(messages[Len(messages)])
        /\ messages[Len(messages)].content = sends[s].text
        /\ messages[Len(messages)].type = "user"
====
